---- MODULE Spec2Model ----
(***************************************************************************)
(* Model of the Checkmarx SAST Prometheus exporter (src/src/cxprometheus.py)*)
(*                                                                         *)
(* CxCollector.collect reconciles the engine slot cache (self.enginelist,  *)
(* an OrderedDict keyed "<engineId>_<slot>") against the engine list and   *)
(* the scan queue fetched by the pass, then classifies every scan into     *)
(* duration samples.                                                       *)
(*                                                                         *)
(*   Spec     sequential scrapes: one collect at a time on the cache       *)
(*   SpecConc two scrape threads of the HTTP server on the same collector  *)
(*   SpecDur  the duration classification of one scan                      *)
(*   SpecMet  sequential scrapes with the samples lists of the five metrics*)
(*   SpecLab  the labels of the samples of one scan                        *)
(*   SpecFetch the token and the fetches of a pass, call by call           *)
(*   SpecStage sequential scrapes whose scans move between stages 3 to 7   *)
(*   SpecName sequential scrapes whose engine changes name and LOC range   *)
(*   SpecTok  two scrape threads in gettoken and resettoken                *)
(*   SpecTokFair the same under fair scheduling                            *)
(*   SpecStress the stress driver (src/src/cxstresser.py), round by round  *)
(***************************************************************************)
EXTENDS Integers, Sequences, FiniteSets, TLC

VARIABLES
    enginelist,   \* self.enginelist: sequence of [key, val], in OrderedDict order
    engines,      \* collect's local `engines` of the pass that just ran
    scans,        \* collect's local `scans` of the pass that just ran
    before,       \* history: self.enginelist when that pass started
    pass,         \* "idle" | "done" (collect ran to its yields) | "aborted" (a
                  \* fetch raised) | "raised" (SpecMet: the scan loop raised)
    tpc,          \* SpecConc: per thread, the position inside collect
    tengines,     \* SpecConc: per thread, the local `engines`
    tscans,       \* SpecConc: per thread, the local `scans`
    dpc,          \* SpecDur: "idle" | "classified"
    dscan,        \* SpecDur: the scan being classified
    dnow,         \* SpecDur: time.time() sampled for it (scannow)
    dout,         \* SpecDur: what the classification emitted
    metrics,      \* SpecMet: the samples lists of self._metric1 .. self._metric5
    mnow,         \* SpecMet: time.time() of the pass that just ran
    mbefore,      \* SpecMet history: the samples lists when that pass started
    mprev,        \* SpecMet history: how the pass before that one ended
    dengines,     \* SpecLab: the engine list of the pass the scan is classified in
    dmetrics,     \* SpecLab: the samples lists after the scan, empty before it
    fpc,          \* SpecFetch: the position of the pass inside collect
    fcalls,       \* SpecFetch history: the calls of the pass so far, in order
    ftoken,       \* SpecFetch: the globals _token and _tokenread
    fclock,       \* SpecFetch: time.time()
    fengines,     \* SpecFetch: collect's local `engines`
    fscans,       \* SpecFetch: collect's local `scans`
    kpc,          \* SpecTok: per thread, the call it is in and where
    klock,        \* SpecTok: the thread that holds _tokenlock, or 0
    kest,         \* SpecTok history: per thread, _token when its gettoken
                  \* left the locked section
    kret,         \* SpecTok: per thread, <<the value its gettoken returned>>
    spc,          \* SpecStress: the position of the stress driver's main loop
    stepmode,     \* cxstresser._stepmode
    lastproject,  \* cxstresser._lastproject
    concurrentscans, \* cxstresser._concurrentscans
    scansrunning, \* cxstresser._scansrunning
    scansqueue,   \* cxstresser._scansqueue
    scanstostart, \* the main loop's `scanstostart`
    sprojects,    \* startscans' local `sprojects` of the last call
    sused,        \* SpecStress history: the indices that call subscripted with
    sstarted,     \* SpecStress history: the project ids it passed to cxstartscan
    sraised,      \* SpecStress history: "none" (no call yet in this round) |
                  \* "ok" | "index" (IndexError) | "network" (a request raised)
    sprevstep,    \* SpecStress history: _stepmode before the last computecargo
    sprevlast,    \* SpecStress history: _lastproject before the last startscans
    ncalls        \* SpecStress history: the computecargo calls that returned

vars == <<enginelist, engines, scans, before, pass, tpc, tengines, tscans,
          dpc, dscan, dnow, dout, metrics, mnow, mbefore, mprev,
          dengines, dmetrics, fpc, fcalls, ftoken, fclock, fengines, fscans,
          kpc, klock, kest, kret, spc, stepmode, lastproject,
          concurrentscans, scansrunning, scansqueue, scanstostart, sprojects,
          sused, sstarted, sraised, sprevstep, sprevlast, ncalls>>

seqvars == <<enginelist, engines, scans, before, pass>>
concvars == <<tpc, tengines, tscans>>
durvars == <<dpc, dscan, dnow, dout>>
metvars == <<metrics, mnow, mbefore, mprev>>
labvars == <<dengines, dmetrics>>
fetchvars == <<fpc, fcalls, ftoken, fclock, fengines, fscans>>
tokvars == <<kpc, klock, kest, kret>>
stressvars == <<spc, stepmode, lastproject, concurrentscans, scansrunning,
                scansqueue, scanstostart, sprojects, sused, sstarted, sraised,
                sprevstep, sprevlast, ncalls>>

(***************************************************************************)
(* Bounds of the model.                                                    *)
(***************************************************************************)
MaxEngineId == 2     \* engine ids are 1..MaxEngineId
MaxCalls == 12       \* the stress driver makes at most MaxCalls rounds
MaxCapacity == 2     \* the farm's summed maxScans is in 0..MaxCapacity
MaxQueued == 2       \* the stress driver sees 0..MaxQueued scans in the queue
MaxProjects == 2     \* project ids are 1..MaxProjects, lists that long at most
MaxCap == 2          \* an engine reports maxScans in 0..MaxCap
MaxScanId == 2       \* scan ids are 1..MaxScanId
MaxQueue == 2        \* a scan queue holds at most MaxQueue scans

EngineIds == 1..MaxEngineId
Caps == 0..MaxCap
ScanIds == 1..MaxScanId

\* Stage codes of the scans in the queues of Spec: 4 Scanning (inside the
\* active range 3..6) and 7 Finished (outside it).
QueueStages == {4, 7}

(***************************************************************************)
(* Records of the REST collaborators.                                      *)
(***************************************************************************)
EngineName(id) == <<"engine", id>>
EngineMinLoc(id) == 0
EngineMaxLoc(id) == 999999999

\* One element of cxgetengines' result: {id, name, maxScans, minLoc, maxLoc}.
Engine(id, cap) ==
    [id |-> id, name |-> EngineName(id), maxScans |-> cap,
     minLoc |-> EngineMinLoc(id), maxLoc |-> EngineMaxLoc(id)]

\* One element of cxgetscansqueue's result, with the fields the
\* reconciliation reads: id, stage.id and engine (<<>> is None, <<e>> is {id: e}).
Scan(id, stage, engine) == [id |-> id, stage |-> stage, engine |-> engine]

RECURSIVE SeqsUpTo(_, _)
\* All sequences over S of length at most n.
SeqsUpTo(S, n) ==
    IF n = 0 THEN {<<>>}
    ELSE LET shorter == SeqsUpTo(S, n - 1)
         IN shorter \cup {Append(q, x) : q \in {r \in shorter : Len(r) = n - 1}, x \in S}

\* Engine lists: every engine id at most once (the id is the engine's key in
\* the farm), in the order the farm reports them (ascending id).
RECURSIVE EngineListsFrom(_)
EngineListsFrom(id) ==
    IF id > MaxEngineId THEN {<<>>}
    ELSE LET rest == EngineListsFrom(id + 1)
         IN rest \cup {<<Engine(id, c)>> \o r : c \in Caps, r \in rest}

EngineLists == EngineListsFrom(1)

QueueScans ==
    {Scan(i, st, e) : i \in ScanIds, st \in QueueStages,
                      e \in {<<>>} \cup {<<x>> : x \in EngineIds}}

\* Scan queues: every scan id at most once (the id is the scan's key).
ScanLists ==
    {q \in SeqsUpTo(QueueScans, MaxQueue) :
        \A i, j \in 1..Len(q) : q[i].id = q[j].id => i = j}

(***************************************************************************)
(* The engine slot cache.                                                  *)
(***************************************************************************)
\* iengx = str(engine["id"]) + "_" + str(idx); iids = iengx.split("_").
SlotKey(eid, idx) == <<eid, idx>>
KeyEngine(key) == key[1]
KeySlot(key) == key[2]

\* str() of an int: its decimal numeral, kept as the number it denotes.
Str(n) == [str |-> n]

\* The 8-element list stored per key: [eid, ename, econc, escans, eminloc,
\* emaxloc, escanid, estate].
NewSlot(engine, idx) ==
    [eid |-> engine.id, ename |-> engine.name, econc |-> idx,
     escans |-> Str(engine.maxScans), eminloc |-> Str(engine.minLoc),
     emaxloc |-> Str(engine.maxLoc), escanid |-> 0, estate |-> "Idle"]

HasKey(list, key) == \E i \in 1..Len(list) : list[i].key = key

\* The inner loop of the prune without the maxScans test.
EngineCoversAnyCapacity(engs, key) ==
    \E i \in 1..Len(engs) : engs[i].id = KeyEngine(key)

\* Inner loop of the prune: some engine has the key's id and maxScans >= slot.
EngineCovers(engs, key) ==
    \E i \in 1..Len(engs) :
        /\ engs[i].id = KeyEngine(key)
        /\ engs[i].maxScans >= KeySlot(key)

RemoveAt(list, i) == SubSeq(list, 1, i - 1) \o SubSeq(list, i + 1, Len(list))

RECURSIVE PruneFrom(_, _, _)
\* while idx >= 0: pop the idx-th key when no engine covers it; idx = idx - 1.
\* (idx here is the 1-based position.)
PruneFrom(list, engs, idx) ==
    IF idx < 1 THEN list
    ELSE IF EngineCovers(engs, list[idx].key)
         THEN PruneFrom(list, engs, idx - 1)
         ELSE PruneFrom(RemoveAt(list, idx), engs, idx - 1)

\* A prune that is skipped when the engine list is empty.
PruneUnlessEmpty(list, engs) ==
    IF engs = <<>> THEN list ELSE PruneFrom(list, engs, Len(list))

Prune(list, engs) == PruneFrom(list, engs, Len(list))

RECURSIVE GrowEngineRefresh(_, _, _)
\* A grow loop that also rewrites the name and the LOC bounds of the slots
\* it finds.
GrowEngineRefresh(list, engine, idx) ==
    IF idx > engine.maxScans THEN list
    ELSE IF HasKey(list, SlotKey(engine.id, idx))
         THEN GrowEngineRefresh(
                  [i \in 1..Len(list) |->
                      IF list[i].key = SlotKey(engine.id, idx)
                      THEN [list[i] EXCEPT !.val.ename = engine.name,
                                           !.val.eminloc = Str(engine.minLoc),
                                           !.val.emaxloc = Str(engine.maxLoc)]
                      ELSE list[i]],
                  engine, idx + 1)
         ELSE GrowEngineRefresh(Append(list, [key |-> SlotKey(engine.id, idx),
                                              val |-> NewSlot(engine, idx)]),
                                engine, idx + 1)

RECURSIVE GrowEngine(_, _, _)
\* while idx <= imax: add the key "<id>_<idx>" when it is missing.
GrowEngine(list, engine, idx) ==
    IF idx > engine.maxScans THEN list
    ELSE IF HasKey(list, SlotKey(engine.id, idx))
         THEN GrowEngine(list, engine, idx + 1)
         ELSE GrowEngine(Append(list, [key |-> SlotKey(engine.id, idx),
                                       val |-> NewSlot(engine, idx)]),
                         engine, idx + 1)

RECURSIVE GrowFrom(_, _, _)
\* for engine in engines: idx = 1; the while loop above.
GrowFrom(list, engs, i) ==
    IF i > Len(engs) THEN list
    ELSE GrowFrom(GrowEngine(list, engs[i], 1), engs, i + 1)

Grow(list, engs) == GrowFrom(list, engs, 1)

\* scanengineid: scan["engine"]["id"], or 0 when scan["engine"] is None.
ScanEngineId(scan) == IF scan.engine = <<>> THEN 0 ELSE scan.engine[1]

\* The active range without its upper end.
ActiveStageNoUpper(stage) == stage >= 3

\* (scanstatusid >= 3) and (scanstatusid <= 6)
ActiveStage(stage) == stage >= 3 /\ stage <= 6

\* lfound without the comparison of the engine ids.
StillRunningAnyEngine(v, scs) ==
    \E j \in 1..Len(scs) :
        /\ v.escanid = scs[j].id
        /\ scs[j].stage >= 3 /\ scs[j].stage <= 6

\* lfound without the test of the stage.
StillRunningAnyStage(v, scs) ==
    \E j \in 1..Len(scs) :
        /\ v.escanid = scs[j].id
        /\ ScanEngineId(scs[j]) = v.eid

\* A release loop that finds no slot's scan in the list.
StillRunningNever(v, scs) == FALSE

\* lfound of the release loop, for the slot value v.
StillRunning(v, scs) ==
    \E j \in 1..Len(scs) :
        /\ v.escanid = scs[j].id
        /\ ActiveStage(scs[j].stage)
        /\ ScanEngineId(scs[j]) = v.eid

\* for iengine in self.enginelist.values(): reset when not lfound.
Release(list, scs) ==
    [i \in 1..Len(list) |->
        IF StillRunning(list[i].val, scs)
        THEN list[i]
        ELSE [list[i] EXCEPT !.val.escanid = 0, !.val.estate = "Idle"]]

\* Positions a loop of setenginescan stops at.
Carrying(list, scanid, engineid) ==
    {i \in 1..Len(list) : list[i].val.eid = engineid /\ list[i].val.escanid = scanid}

Min(S) == CHOOSE x \in S : \A y \in S : x <= y

\* setenginescan with the first loop left out: always takes a free slot.
setenginescanNoLookup(list, scanid, engineid, scanstatus) ==
    LET free == Carrying(list, 0, engineid)
    IN IF free # {}
       THEN [list EXCEPT ![Min(free)].val.escanid = scanid,
                         ![Min(free)].val.estate = scanstatus]
       ELSE list

\* setenginescan that takes a free slot of any engine.
setenginescanAnyEngine(list, scanid, engineid, scanstatus) ==
    LET held == Carrying(list, scanid, engineid)
        free == {i \in 1..Len(list) : list[i].val.escanid = 0}
    IN IF held # {}
       THEN [list EXCEPT ![Min(held)].val.estate = scanstatus]
       ELSE IF free # {}
            THEN [list EXCEPT ![Min(free)].val.escanid = scanid,
                              ![Min(free)].val.estate = scanstatus]
            ELSE list

\* setenginescan that leaves the state of a slot already carrying the scan.
setenginescanKeepState(list, scanid, engineid, scanstatus) ==
    LET held == Carrying(list, scanid, engineid)
        free == Carrying(list, 0, engineid)
    IN IF held # {}
       THEN list
       ELSE IF free # {}
            THEN [list EXCEPT ![Min(free)].val.escanid = scanid,
                              ![Min(free)].val.estate = scanstatus]
            ELSE list

\* setenginescan that writes the scan id and leaves the state for later.
setenginescanIdOnly(list, scanid, engineid, scanstatus) ==
    LET held == Carrying(list, scanid, engineid)
        free == Carrying(list, 0, engineid)
    IN IF held # {}
       THEN [list EXCEPT ![Min(held)].val.estate = scanstatus]
       ELSE IF free # {}
            THEN [list EXCEPT ![Min(free)].val.escanid = scanid]
            ELSE list

\* setenginescan taking the last free slot of the engine, not the first.
setenginescanLastFree(list, scanid, engineid, scanstatus) ==
    LET held == Carrying(list, scanid, engineid)
        free == Carrying(list, 0, engineid)
        last == CHOOSE x \in free : \A y \in free : y <= x
    IN IF held # {}
       THEN [list EXCEPT ![Min(held)].val.estate = scanstatus]
       ELSE IF free # {}
            THEN [list EXCEPT ![last].val.escanid = scanid,
                              ![last].val.estate = scanstatus]
            ELSE list

\* setenginescan: the first slot of the engine that carries the scan gets the
\* status; when there is none, the first free slot of the engine gets the
\* scan and the status.
setenginescan(list, scanid, engineid, scanstatus) ==
    LET held == Carrying(list, scanid, engineid)
        free == Carrying(list, 0, engineid)
    IN IF held # {}
       THEN [list EXCEPT ![Min(held)].val.estate = scanstatus]
       ELSE IF free # {}
            THEN [list EXCEPT ![Min(free)].val.escanid = scanid,
                              ![Min(free)].val.estate = scanstatus]
            ELSE list

\* scanenginestatus of the assign loop.
EngineStatus(stage) ==
    IF stage = 3 THEN "Queued"
    ELSE IF stage >= 4 /\ stage <= 6 THEN "Scanning"
    ELSE "Idle"

RECURSIVE AssignFrom(_, _, _)
\* for scan in scans: register the scan when id > 0, engine id > 0 and the
\* status is not Idle.
AssignFrom(list, scs, j) ==
    IF j > Len(scs) THEN list
    ELSE LET scan == scs[j]
             st == EngineStatus(scan.stage)
         IN IF scan.id > 0 /\ ScanEngineId(scan) > 0 /\ st # "Idle"
            THEN AssignFrom(setenginescan(list, scan.id, ScanEngineId(scan), st),
                            scs, j + 1)
            ELSE AssignFrom(list, scs, j + 1)

Assign(list, scs) == AssignFrom(list, scs, 1)

\* The four loops with release and assign ahead of prune and grow.
ReconcileAssignFirst(list, engs, scs) ==
    Grow(Prune(Assign(Release(list, scs), scs), engs), engs)

\* The reconciliation of one pass: prune, grow, release, assign.
Reconcile(list, engs, scs) == Assign(Release(Grow(Prune(list, engs), engs), scs), scs)

(***************************************************************************)
(* Sequential scrapes.                                                     *)
(***************************************************************************)
InitSeq ==
    /\ enginelist = <<>>
    /\ engines = <<>>
    /\ scans = <<>>
    /\ before = <<>>
    /\ pass = "idle"

(***************************************************************************)
(* The duration classification of one scan (collect, second scan loop).    *)
(*                                                                         *)
(* A timestamp field of a scan is None, a string that is no date, or a     *)
(* date string "YYYY-MM-DDTHH:MM:SS" with or without a fractional part.     *)
(* Times are whole epoch seconds: the size of the fraction is not          *)
(* modelled, only whether the string carries one.                          *)
(***************************************************************************)
MaxTime == 2         \* timestamps and `now` are 0..MaxTime

NoneDate == [kind |-> "none", secs |-> 0, dot |-> FALSE]
BadDate == [kind |-> "bad", secs |-> 0, dot |-> FALSE]
DateString(t, dot) == [kind |-> "date", secs |-> t, dot |-> dot]

DateValues ==
    {NoneDate, BadDate} \cup {DateString(t, d) : t \in 0..MaxTime, d \in BOOLEAN}

\* processdatestring: a str without "." gets ".0" appended; anything else is
\* returned as it is.
processdatestring(thedate) ==
    IF thedate.kind = "none" THEN thedate
    ELSE IF thedate.dot THEN thedate
    ELSE [thedate EXCEPT !.dot = TRUE]

\* datetime.strptime(s, "%Y-%m-%dT%H:%M:%S.%f").timestamp(): the format demands
\* the fractional part; None raises TypeError, any other mismatch ValueError.
strptime(thedate) ==
    IF thedate.kind = "date" /\ thedate.dot
    THEN [ok |-> TRUE, t |-> thedate.secs]
    ELSE [ok |-> FALSE, t |-> 0]

ParseDate(thedate) == strptime(processdatestring(thedate))

\* try: scanini = <parse> / except: scanini = 0.0
ParseOrZero(thedate) ==
    LET r == ParseDate(thedate) IN IF r.ok THEN r.t ELSE 0

\* val_time = ( a - b ) / 60: the exact quotient, as numerator and denominator.
Minutes(seconds) == [num |-> seconds, den |-> 60]

\* The full range without the unused stage 5.
IsFullStageNoFive(stage) == stage = 10 \/ (stage >= 1 /\ stage <= 6 /\ stage # 5)

\* The full range without SourcePullingAndDeployment.
IsFullStageOneToSix(stage) == stage >= 1 /\ stage <= 6

\* (scanstatusid == 10) or (scanstatusid >= 1 and scanstatusid <= 6)
IsFullStage(stage) == stage = 10 \/ (stage >= 1 /\ stage <= 6)

\* The pulling stages without SourcePullingAndDeployment.
IsPullingStageNoTen(stage) == stage \in {1, 2}

\* scanstatusid in [1, 2, 10]
IsPullingStage(stage) == stage \in {1, 2, 10}

Sample(metric, value) == [metric |-> metric, val |-> value]

\* metric5 (full)
FullSamples(stage, scannow, scannew) ==
    IF IsFullStage(stage) THEN <<Sample("full", Minutes(scannow - scannew))>> ELSE <<>>

\* metric2 (pulling)
PullingSamples(scannow, scannew) == <<Sample("pulling", Minutes(scannow - scannew))>>

\* queued measured from the timestamp to now the wrong way round.
QueuedSamplesReversed(scan, scannow) ==
    LET scanini == ParseOrZero(scan.queuedOn)
    IN IF scanini > 0 THEN <<Sample("queued", Minutes(scanini - scannow))>> ELSE <<>>

\* metric3 (queued): emitted when the parsed queuedOn is > 0.0
QueuedSamples(scan, scannow) ==
    LET scanini == ParseOrZero(scan.queuedOn)
    IN IF scanini > 0 THEN <<Sample("queued", Minutes(scannow - scanini))>> ELSE <<>>

\* scanend: the parsed completedOn, or scannow when the parse raises
ScanEnd(scan, scannow) ==
    LET r == ParseDate(scan.completedOn) IN IF r.ok THEN r.t ELSE scannow

\* metric4 (scanning): emitted when the parsed engineStartedOn is > 0.0
ScanningSamples(scan, scannow) ==
    LET scanini == ParseOrZero(scan.engineStartedOn)
    IN IF scanini > 0
       THEN <<Sample("scanning", Minutes(ScanEnd(scan, scannow) - scanini))>>
       ELSE <<>>

\* if / elif / elif on the stage
PhaseSamples(scan, scannow, scannew) ==
    IF IsPullingStage(scan.stage) THEN PullingSamples(scannow, scannew)
    ELSE IF scan.stage = 3 THEN QueuedSamples(scan, scannow)
    ELSE IF scan.stage >= 4 /\ scan.stage <= 6 THEN ScanningSamples(scan, scannow)
    ELSE <<>>

\* One iteration of the scan loop. The parse of dateCreated is outside any
\* try: when it raises, the exception leaves collect and nothing is added.
ClassifyScan(scan, scannow) ==
    LET created == ParseDate(scan.dateCreated)
    IN IF ~created.ok
       THEN [raised |-> TRUE, samples |-> <<>>]
       ELSE [raised |-> FALSE,
             samples |-> FullSamples(scan.stage, scannow, created.t)
                         \o PhaseSamples(scan, scannow, created.t)]

\* 1 New, 2 PreScan, 3 Queued, 4 Scanning, 5, 6 PostScan, 7 Finished,
\* 8 Canceled, 9 Failed, 10 SourcePullingAndDeployment, 1001 None.
StageCodes == {1, 2, 3, 4, 5, 6, 7, 8, 9, 10, 1001}

TimedScan(stage, created, queued, started, completed) ==
    [id |-> 1, stage |-> stage, engine |-> <<>>, dateCreated |-> created,
     queuedOn |-> queued, engineStartedOn |-> started, completedOn |-> completed]

NoScan == TimedScan(1001, NoneDate, NoneDate, NoneDate, NoneDate)
NoOutput == [raised |-> FALSE, samples |-> <<>>]

(***************************************************************************)
(* Metric samples.  The five metric objects are made once, in __init__,    *)
(* and every pass adds its samples to their samples lists.                 *)
(***************************************************************************)
\* One element of cxgetengines' result, every field given.
NamedEngine(id, name, cap, minloc, maxloc) ==
    [id |-> id, name |-> name, maxScans |-> cap, minLoc |-> minloc, maxLoc |-> maxloc]

\* One element of cxgetscansqueue's result, with its timestamps.
QueuedScan(id, stage, engine, created, queued, started, completed) ==
    [id |-> id, stage |-> stage, engine |-> engine, dateCreated |-> created,
     queuedOn |-> queued, engineStartedOn |-> started, completedOn |-> completed]

\* The samples lists of metric1 (engine) and metric2..metric5.
NoSamples ==
    [engine |-> <<>>, pulling |-> <<>>, queued |-> <<>>, scanning |-> <<>>,
     full |-> <<>>]

\* A pass that starts without emptying the samples lists.
ClearSamplesKeep(m) == m

\* metricN.samples.clear(), for the five of them
ClearSamples(m) == NoSamples

\* metric1.add_metric([str(eid), ename, str(econc), estate], vvalue)
EngineSample(v) ==
    [labels |-> <<Str(v.eid), v.ename, Str(v.econc), v.estate>>,
     val |-> IF v.estate = "Idle" THEN 0 ELSE 1]

\* Samples for the busy slots only.
EngineMetricsBusyOnly(m, list) ==
    LET busy == SelectSeq(list, LAMBDA x : x.val.estate # "Idle")
    IN [m EXCEPT !.engine = @ \o [i \in 1..Len(busy) |-> EngineSample(busy[i].val)]]

\* for iengine in self.enginelist.values(): one sample per slot, in order
EngineMetrics(m, list) ==
    [m EXCEPT !.engine = @ \o [i \in 1..Len(list) |-> EngineSample(list[i].val)]]

\* The labels of a scan when no engine is resolved.
DefaultLabels(scan) == <<Str(scan.id), Str(0), "", Str(0), Str(999999999)>>

\* Labels that never look the engine up.
ScanLabelsNoLookup(scan, engs) == DefaultLabels(scan)

\* [str(scanid), scanengineid, scanenginename, scanenginelocmin,
\* scanenginelocmax]: the defaults, or the fields of the first engine of the
\* list whose id is the id of the scan's engine reference.
ScanLabels(scan, engs) ==
    LET hits == IF scan.engine = <<>> THEN {}
                ELSE {i \in 1..Len(engs) : engs[i].id = scan.engine[1]}
    IN IF hits = {} THEN DefaultLabels(scan)
       ELSE LET engine == engs[Min(hits)]
            IN <<Str(scan.id), Str(engine.id), engine.name,
                 Str(engine.minLoc), Str(engine.maxLoc)>>

\* metricN.add_metric(labels, val_time) for the samples of one scan
AddScanSamples(m, labels, samples) ==
    LET added(name) ==
            LET mine == SelectSeq(samples, LAMBDA x : x.metric = name)
            IN [i \in 1..Len(mine) |-> [labels |-> labels, val |-> mine[i].val]]
    IN [engine |-> m.engine,
        pulling |-> m.pulling \o added("pulling"),
        queued |-> m.queued \o added("queued"),
        scanning |-> m.scanning \o added("scanning"),
        full |-> m.full \o added("full")]

\* for scan in scans: the loop stops at the first scan whose dateCreated
\* does not parse, with the samples added so far left in the lists.
RECURSIVE ScanMetricsFrom(_, _, _, _, _)
ScanMetricsFrom(m, scs, engs, scannow, j) ==
    IF j > Len(scs) THEN [raised |-> FALSE, metrics |-> m]
    ELSE LET out == ClassifyScan(scs[j], scannow)
         IN IF out.raised THEN [raised |-> TRUE, metrics |-> m]
            ELSE ScanMetricsFrom(
                     AddScanSamples(m, ScanLabels(scs[j], engs), out.samples),
                     scs, engs, scannow, j + 1)

\* collect from the engine metrics to the end of the scan loop
PassMetrics(m, list, engs, scs, scannow) ==
    ScanMetricsFrom(EngineMetrics(m, list), scs, engs, scannow, 1)

(***************************************************************************)
(* The access token: the globals _token and _tokenread.                    *)
(***************************************************************************)
\* _token = "" and _tokenread = 0
NoToken == [token |-> "", tokenread |-> 0]

\* The age in seconds above which gettoken logs on again.
TokenTTL == 1400

\* The test without the age of the token.
NeedsLogonNoExpiry(tok, now) == tok.token = "" \/ tok.tokenread = 0

\* (_token == "") or (_tokenread == 0) or (time.time() - _tokenread > 1400)
NeedsLogon(tok, now) ==
    tok.token = "" \/ tok.tokenread = 0 \/ now - tok.tokenread > TokenTTL

\* gettoken when cxlogon, if it is called, returns stoken: the token is
\* stored as returned and the timestamp is taken only for a non-empty one.
gettoken(tok, now, stoken) ==
    IF NeedsLogon(tok, now)
    THEN [token |-> stoken, tokenread |-> IF stoken # "" THEN now ELSE tok.tokenread]
    ELSE tok

resettoken(tok) == NoToken

\* The scrape threads of the HTTP server.
Threads == {1, 2}

\* Where a thread is: the call (`op`), the place in it (`at`) and, for
\* gettoken, whether it is the first or the second gettoken of the pass.
At(op, at, n) == [op |-> op, at |-> at, n |-> n]

\* A lock that anyone can take at any time.
LockFreeAlways(lock) == TRUE

\* _tokenlock.acquire() goes through when no thread holds the lock.
LockFree(lock) == lock = 0

(***************************************************************************)
(* Initial states.                                                         *)
(***************************************************************************)
InitConc ==
    /\ tpc = [t \in {1, 2} |-> "off"]
    /\ tengines = [t \in {1, 2} |-> <<>>]
    /\ tscans = [t \in {1, 2} |-> <<>>]

InitDur ==
    /\ dpc = "idle"
    /\ dscan = NoScan
    /\ dnow = 0
    /\ dout = NoOutput

InitLab ==
    /\ dengines = <<>>
    /\ dmetrics = NoSamples

InitFetch ==
    /\ fpc = "idle"
    /\ fcalls = <<>>
    /\ ftoken = NoToken
    /\ fclock = 1
    /\ fengines = <<>>
    /\ fscans = <<>>

(***************************************************************************)
(* The stress driver (src/src/cxstresser.py): every minute it logs on,     *)
(* computes how many scans to add to the queue and starts them on the      *)
(* projects in turn.                                                       *)
(***************************************************************************)
\* computecargo, the number it returns: three times the capacity on step 0,
\* the capacity on the other steps, less what is in the queue, not below 0.
ScansToStart(step, capacity, queued) ==
    LET raw == IF step = 0 THEN (capacity * 3) - queued ELSE capacity - queued
    IN  IF raw < 0 THEN 0 ELSE raw

\* A step counter that wraps one step early.
NextStepWrapAtNine(step) == IF step + 1 > 9 THEN 0 ELSE step + 1

\* computecargo, the step counter it leaves
NextStep(step) == IF step + 1 > 10 THEN 0 ELSE step + 1

\* list[i] of Python: valid for -len <= i < len, negative i from the end
InRange(list, i) == i < Len(list) /\ i >= 0 - Len(list)
Subscript(list, i) == IF i >= 0 THEN list[i + 1] ELSE list[Len(list) + i + 1]

\* startscans, the while loop: `failat` is the call of cxstartscan that
\* raises, 0 if none does.
RECURSIVE StartLoop(_, _, _, _, _, _)
StartLoop(last, projects, counter, failat, used, started) ==
    IF counter <= 0
    THEN [last |-> last, used |-> used, started |-> started, raised |-> "ok"]
    ELSE LET l1 == last + 1
             l2 == IF l1 >= Len(projects) THEN 0 ELSE l1
         IN  IF ~InRange(projects, l2)
             THEN [last |-> l2, used |-> Append(used, l2), started |-> started,
                   raised |-> "index"]
             ELSE IF Len(started) + 1 = failat
             THEN [last |-> l2, used |-> Append(used, l2), started |-> started,
                   raised |-> "network"]
             ELSE StartLoop(l2, projects, counter - 1, failat, Append(used, l2),
                            Append(started, Subscript(projects, l2)))

\* The globals of lines 54-58, before the first round.
InitStress ==
    /\ spc = "logon"
    /\ stepmode = 0
    /\ lastproject = -1
    /\ concurrentscans = 0
    /\ scansrunning = 0
    /\ scansqueue = 0
    /\ scanstostart = 0
    /\ sprojects = <<>>
    /\ sused = <<>>
    /\ sstarted = <<>>
    /\ sraised = "none"
    /\ sprevstep = 0
    /\ sprevlast = -1
    /\ ncalls = 0

\* No scrape is running.
InitTok ==
    /\ kpc = [t \in Threads |-> At("idle", "idle", 0)]
    /\ klock = 0
    /\ kest = [t \in Threads |-> ""]
    /\ kret = [t \in Threads |-> <<>>]

InitMet ==
    /\ metrics = NoSamples
    /\ mnow = 0
    /\ mbefore = NoSamples
    /\ mprev = "none"

Init ==
    /\ InitSeq /\ InitConc /\ InitDur /\ InitMet /\ InitLab /\ InitFetch
    /\ InitTok /\ InitStress

(***************************************************************************)
(* Sequential scrapes: the registry runs one collect after the other.      *)
(***************************************************************************)
\* collect, from the fetches to the yields. An empty `engs` is what the pass
\* is left with when both fetches of the engine list came back empty.
Collect(engs, scs) ==
    /\ enginelist' = Reconcile(enginelist, engs, scs)
    /\ engines' = engs
    /\ scans' = scs
    /\ before' = enginelist
    /\ pass' = "done"
    /\ UNCHANGED <<concvars, durvars, metvars, labvars, fetchvars, tokvars,
                   stressvars>>

CollectAny ==
    /\ pass = "idle"
    /\ \E engs \in EngineLists, scs \in ScanLists : Collect(engs, scs)

\* collect when the second cxgetengines, cxlogon or cxgetscansqueue raises:
\* the exception leaves collect before the reconciliation.
CollectAbort ==
    /\ pass = "idle"
    /\ pass' = "aborted"
    /\ UNCHANGED <<enginelist, engines, scans, before, concvars, durvars,
                   metvars, labvars, fetchvars, tokvars, stressvars>>

\* The generator is exhausted: the locals of the pass are gone.
Return ==
    /\ pass # "idle"
    /\ pass' = "idle"
    /\ engines' = <<>>
    /\ scans' = <<>>
    /\ before' = <<>>
    /\ UNCHANGED <<enginelist, concvars, durvars, metvars, labvars, fetchvars,
                   tokvars, stressvars>>

Next ==
    \/ CollectAny
    \/ CollectAbort
    \/ Return

Spec == Init /\ [][Next]_vars

(***************************************************************************)
(* Two scrapes at once. start_http_server serves every request on a thread *)
(* of its own and the registry calls collect of the one registered         *)
(* collector on each; collect takes no lock around self.enginelist.  The   *)
(* interpreter may switch threads between any two bytecodes; here a thread *)
(* is preempted only between the four loops of the reconciliation.         *)
(***************************************************************************)
ConcEngineLists == {q \in EngineLists : \A i \in 1..Len(q) : q[i].id = 1}
ConcScanLists == {q \in ScanLists : Len(q) <= 1 /\ \A i \in 1..Len(q) : q[i].id = 1}

\* The cache the two scrapes find: empty, or left by an earlier scrape.
InitConcCache ==
    {Reconcile(<<>>, e, s) : e \in ConcEngineLists, s \in ConcScanLists}

InitC ==
    /\ enginelist \in InitConcCache
    /\ before = enginelist
    /\ engines = <<>>
    /\ scans = <<>>
    /\ pass = "idle"
    /\ tpc = [t \in Threads |-> "start"]
    /\ tengines = [t \in Threads |-> <<>>]
    /\ tscans = [t \in Threads |-> <<>>]
    /\ InitDur
    /\ InitMet
    /\ InitLab
    /\ InitFetch
    /\ InitTok
    /\ InitStress

TStep(t, from, to) ==
    /\ tpc[t] = from
    /\ tpc' = [tpc EXCEPT ![t] = to]

\* cxgetengines and cxgetscansqueue of thread t
TFetch(t) ==
    /\ TStep(t, "start", "fetched")
    /\ \E e \in ConcEngineLists, s \in ConcScanLists :
          /\ tengines' = [tengines EXCEPT ![t] = e]
          /\ tscans' = [tscans EXCEPT ![t] = s]
    /\ UNCHANGED <<seqvars, durvars, metvars, labvars, fetchvars, tokvars, stressvars>>

TPrune(t) ==
    /\ TStep(t, "fetched", "pruned")
    /\ enginelist' = Prune(enginelist, tengines[t])
    /\ UNCHANGED <<engines, scans, before, pass, tengines, tscans, durvars,
                   metvars, labvars, fetchvars, tokvars, stressvars>>

TGrow(t) ==
    /\ TStep(t, "pruned", "grown")
    /\ enginelist' = Grow(enginelist, tengines[t])
    /\ UNCHANGED <<engines, scans, before, pass, tengines, tscans, durvars,
                   metvars, labvars, fetchvars, tokvars, stressvars>>

TRelease(t) ==
    /\ TStep(t, "grown", "released")
    /\ enginelist' = Release(enginelist, tscans[t])
    /\ UNCHANGED <<engines, scans, before, pass, tengines, tscans, durvars,
                   metvars, labvars, fetchvars, tokvars, stressvars>>

TAssign(t) ==
    /\ TStep(t, "released", "done")
    /\ enginelist' = Assign(enginelist, tscans[t])
    /\ UNCHANGED <<engines, scans, before, pass, tengines, tscans, durvars,
                   metvars, labvars, fetchvars, tokvars, stressvars>>

NextC ==
    \E t \in Threads :
        \/ TFetch(t)
        \/ TPrune(t)
        \/ TGrow(t)
        \/ TRelease(t)
        \/ TAssign(t)

SpecConc == InitC /\ [][NextC]_vars

(***************************************************************************)
(* The classification of one scan, on its own.                             *)
(***************************************************************************)
TimedScans ==
    {TimedScan(st, c, q, s, e) :
        st \in StageCodes, c \in DateValues, q \in DateValues,
        s \in DateValues, e \in DateValues}

Classify(scan, now) ==
    /\ dscan' = scan
    /\ dnow' = now
    /\ dout' = ClassifyScan(scan, now)
    /\ dpc' = "classified"
    /\ UNCHANGED <<seqvars, concvars, metvars, labvars, fetchvars, tokvars,
                   stressvars>>

ClassifyAny ==
    /\ dpc = "idle"
    /\ \E scan \in TimedScans, now \in 0..MaxTime : Classify(scan, now)

\* The loop moves on to the next scan.
ClassifyNext ==
    /\ dpc = "classified"
    /\ dpc' = "idle"
    /\ dscan' = NoScan
    /\ dnow' = 0
    /\ dout' = NoOutput
    /\ UNCHANGED <<seqvars, concvars, metvars, labvars, fetchvars, tokvars,
                   stressvars>>

NextD ==
    \/ ClassifyAny
    \/ ClassifyNext

SpecDur == Init /\ [][NextD]_vars

(***************************************************************************)
(* Sequential scrapes with their samples.  A pass ends at its yields, or   *)
(* before them when a fetch raises or when the dateCreated of a scan does  *)
(* not parse; the samples lists outlive the pass either way.               *)
(***************************************************************************)
\* Stage codes of the scans in the queues of SpecMet: 1 New (pulling) and
\* 4 Scanning.
MetStages == {1, 4}

MetEngineLists ==
    {<<>>} \cup {<<NamedEngine(1, "a", c, 0, 999999999)>> : c \in 1..MaxCap}

MetScans ==
    {QueuedScan(i, st, e, c, DateString(1, FALSE), DateString(1, FALSE), NoneDate) :
        i \in ScanIds, st \in MetStages, e \in {<<>>, <<1>>},
        c \in {DateString(0, FALSE), BadDate}}

MetScanLists ==
    {q \in SeqsUpTo(MetScans, MaxQueue) :
        \A i, j \in 1..Len(q) : q[i].id = q[j].id => i = j}

\* collect, from the clear of the samples lists to the yields
MCollect(engs, scs, scannow) ==
    LET list == Reconcile(enginelist, engs, scs)
        out == PassMetrics(ClearSamples(metrics), list, engs, scs, scannow)
    IN /\ enginelist' = list
       /\ engines' = engs
       /\ scans' = scs
       /\ before' = enginelist
       /\ metrics' = out.metrics
       /\ mnow' = scannow
       /\ mbefore' = metrics
       /\ pass' = IF out.raised THEN "raised" ELSE "done"
       /\ UNCHANGED <<mprev, concvars, durvars, labvars, fetchvars, tokvars, stressvars>>

MCollectAny ==
    /\ pass = "idle"
    /\ \E engs \in MetEngineLists, scs \in MetScanLists, scannow \in 1..MaxTime :
          MCollect(engs, scs, scannow)

\* collect when cxlogon, the second cxgetengines or cxgetscansqueue raises:
\* the samples lists are empty by then and nothing else has happened.
MCollectAbort ==
    /\ pass = "idle"
    /\ pass' = "aborted"
    /\ metrics' = ClearSamples(metrics)
    /\ mbefore' = metrics
    /\ UNCHANGED <<enginelist, engines, scans, before, mnow, mprev, concvars,
                   durvars, labvars, fetchvars, tokvars, stressvars>>

\* The generator is exhausted or the exception has left it.
MReturn ==
    /\ pass # "idle"
    /\ pass' = "idle"
    /\ engines' = <<>>
    /\ scans' = <<>>
    /\ before' = <<>>
    /\ mnow' = 0
    /\ mbefore' = NoSamples
    /\ mprev' = pass
    /\ UNCHANGED <<enginelist, metrics, concvars, durvars, labvars, fetchvars,
                   tokvars, stressvars>>

NextM ==
    \/ MCollectAny
    \/ MCollectAbort
    \/ MReturn

SpecMet == Init /\ [][NextM]_vars

(***************************************************************************)
(* One iteration of the scan loop with its labels: the scan is classified  *)
(* against the engine list of the pass.                                    *)
(***************************************************************************)
\* Engines as the farm may report them: two names and two LOC ranges each.
LabEngines(id) ==
    {NamedEngine(id, n, 1, loc[1], loc[2]) :
        n \in {"a", "b"}, loc \in {<<0, 999999999>>, <<1000, 50000>>}}

RECURSIVE LabEngineListsFrom(_)
LabEngineListsFrom(id) ==
    IF id > MaxEngineId THEN {<<>>}
    ELSE LET rest == LabEngineListsFrom(id + 1)
         IN rest \cup {<<e>> \o r : e \in LabEngines(id), r \in rest}

LabEngineLists == LabEngineListsFrom(1)

\* Scans of every stage, without an engine or with a reference to an engine
\* id, one more id than the farm can report.
LabScans ==
    {QueuedScan(i, st, e, c, DateString(1, FALSE), DateString(1, FALSE), NoneDate) :
        i \in ScanIds, st \in StageCodes,
        e \in {<<>>} \cup {<<x>> : x \in 1..(MaxEngineId + 1)},
        c \in {DateString(0, TRUE), BadDate}}

LabelScan(scan, engs, now) ==
    /\ dscan' = scan
    /\ dnow' = now
    /\ dengines' = engs
    /\ dout' = ClassifyScan(scan, now)
    /\ dmetrics' = ScanMetricsFrom(NoSamples, <<scan>>, engs, now, 1).metrics
    /\ dpc' = "labeled"
    /\ UNCHANGED <<seqvars, concvars, metvars, fetchvars, tokvars, stressvars>>

LabelAny ==
    /\ dpc = "idle"
    /\ \E scan \in LabScans, engs \in LabEngineLists, now \in 1..MaxTime :
          LabelScan(scan, engs, now)

\* The loop moves on to the next scan.
LabelNext ==
    /\ dpc = "labeled"
    /\ dpc' = "idle"
    /\ dscan' = NoScan
    /\ dnow' = 0
    /\ dengines' = <<>>
    /\ dout' = NoOutput
    /\ dmetrics' = NoSamples
    /\ UNCHANGED <<seqvars, concvars, metvars, fetchvars, tokvars, stressvars>>

NextL ==
    \/ LabelAny
    \/ LabelNext

SpecLab == Init /\ [][NextL]_vars

(***************************************************************************)
(* The fetches of one pass, call by call: gettoken, cxgetengines, on an    *)
(* empty result resettoken, gettoken and cxgetengines again, then          *)
(* cxgetscansqueue and the reconciliation.  The farm may report any        *)
(* maxScans, negative ones included.                                       *)
(***************************************************************************)
MaxClock == 3000     \* time.time() stays at or below MaxClock

\* Time passes in steps of half the token's life or of a bit more than it.
TimeSteps == {TokenTTL \div 2, TokenTTL + 1}

\* What cxlogon returns: "" on a refused logon, the token otherwise.
LogonResults == {"", "Bearer t"}

FetchEngineLists ==
    {<<>>} \cup {<<NamedEngine(1, "a", c, 0, 999999999)>> : c \in (-1)..MaxCap}

FetchScanLists ==
    {<<>>} \cup
    {<<QueuedScan(1, st, e, DateString(0, FALSE), DateString(1, FALSE),
                  DateString(1, FALSE), NoneDate)>> :
        st \in QueueStages, e \in {<<>>} \cup {<<x>> : x \in EngineIds}}

\* One call of the pass and how it ended.
Call(name, raised, value) == [call |-> name, raised |-> raised, value |-> value]

FStep(from, to, call) ==
    /\ fpc = from
    /\ fpc' = to
    /\ fcalls' = Append(fcalls, call)

\* self.gettoken() at position `from`.  When cxlogon is called it raises,
\* and the exception leaves collect, or it returns stoken, which the call
\* records; a call that finds the token valid records nothing.
FGetToken(from, to) ==
    \/ /\ NeedsLogon(ftoken, fclock)
       /\ FStep(from, "aborted", Call("gettoken", TRUE, <<>>))
       /\ UNCHANGED ftoken
    \/ /\ NeedsLogon(ftoken, fclock)
       /\ \E stoken \in LogonResults :
             /\ FStep(from, to, Call("gettoken", FALSE, <<stoken>>))
             /\ ftoken' = gettoken(ftoken, fclock, stoken)
    \/ /\ ~NeedsLogon(ftoken, fclock)
       /\ FStep(from, to, Call("gettoken", FALSE, <<>>))
       /\ ftoken' = gettoken(ftoken, fclock, "")

\* The start of collect: the samples lists are emptied, then
\* apitoken = self.gettoken()
FStart ==
    /\ FGetToken("idle", "engines")
    /\ before' = enginelist
    /\ metrics' = ClearSamples(metrics)
    /\ UNCHANGED <<fclock, fengines, fscans, enginelist, engines, scans, pass,
                   mnow, mbefore, mprev, concvars, durvars, labvars, tokvars,
                   stressvars>>

\* The retry that would go on while the list is empty.
AfterSecondFetchRetry(engs) == IF engs = <<>> THEN "reset" ELSE "scans"

\* A first fetch whose empty result is taken as it is.
AfterFirstFetchNoRetry(engs) == "scans"

\* if (engines == []) after the first fetch
AfterFirstFetch(engs) == IF engs = <<>> THEN "reset" ELSE "scans"

\* After the second fetch the pass goes on, whatever the list.
AfterSecondFetch(engs) == "scans"

\* try: engines = cxgetengines(...) / except: engines = []
FEngines ==
    /\ \/ /\ FStep("engines", AfterFirstFetch(<<>>), Call("cxgetengines", TRUE, <<>>))
          /\ fengines' = <<>>
       \/ \E engs \in FetchEngineLists :
             /\ FStep("engines", AfterFirstFetch(engs), Call("cxgetengines", FALSE, engs))
             /\ fengines' = engs
    /\ UNCHANGED <<ftoken, fclock, fscans, seqvars, concvars, durvars,
                   metvars, labvars, tokvars, stressvars>>

\* self.resettoken()
FReset ==
    /\ FStep("reset", "relogon", Call("resettoken", FALSE, <<>>))
    /\ ftoken' = resettoken(ftoken)
    /\ UNCHANGED <<fclock, fengines, fscans, seqvars, concvars, durvars,
                   metvars, labvars, tokvars, stressvars>>

\* apitoken = self.gettoken(), after the reset
FRelogon ==
    /\ FGetToken("relogon", "refetch")
    /\ UNCHANGED <<fclock, fengines, fscans, seqvars, concvars, durvars,
                   metvars, labvars, tokvars, stressvars>>

\* engines = cxgetengines(...), outside any try
FRefetch ==
    /\ \/ /\ FStep("refetch", "aborted", Call("cxgetengines", TRUE, <<>>))
          /\ UNCHANGED fengines
       \/ \E engs \in FetchEngineLists :
             /\ FStep("refetch", AfterSecondFetch(engs), Call("cxgetengines", FALSE, engs))
             /\ fengines' = engs
    /\ UNCHANGED <<ftoken, fclock, fscans, seqvars, concvars, durvars,
                   metvars, labvars, tokvars, stressvars>>

\* scans = cxgetscansqueue(...), outside any try
FScans ==
    /\ \/ /\ FStep("scans", "aborted", Call("cxgetscansqueue", TRUE, <<>>))
          /\ UNCHANGED fscans
       \/ \E scs \in FetchScanLists :
             /\ FStep("scans", "fetched", Call("cxgetscansqueue", FALSE, scs))
             /\ fscans' = scs
    /\ UNCHANGED <<ftoken, fclock, fengines, seqvars, concvars, durvars,
                   metvars, labvars, tokvars, stressvars>>

\* The reconciliation and the rest of collect, to its yields.
FReconcile ==
    /\ fpc = "fetched"
    /\ fpc' = "done"
    /\ enginelist' = Reconcile(enginelist, fengines, fscans)
    /\ metrics' = PassMetrics(metrics, enginelist', fengines, fscans, fclock).metrics
    /\ UNCHANGED <<engines, scans, before, pass, mnow, mbefore, mprev, fcalls,
                   ftoken, fclock, fengines, fscans, concvars, durvars, labvars,
                   tokvars, stressvars>>

\* The pass is over: its locals are gone; the cache, the samples lists and
\* the token stay.
FReturn ==
    /\ fpc \in {"done", "aborted"}
    /\ fpc' = "idle"
    /\ fcalls' = <<>>
    /\ fengines' = <<>>
    /\ fscans' = <<>>
    /\ before' = <<>>
    /\ UNCHANGED <<ftoken, fclock, enginelist, engines, scans, pass, concvars,
                   durvars, metvars, labvars, tokvars, stressvars>>

\* Time passes, between passes or during one.
FTick ==
    /\ \E d \in TimeSteps :
          /\ fclock + d <= MaxClock
          /\ fclock' = fclock + d
    /\ UNCHANGED <<fpc, fcalls, ftoken, fengines, fscans, seqvars, concvars,
                   durvars, metvars, labvars, tokvars, stressvars>>

NextF ==
    \/ FStart
    \/ FEngines
    \/ FReset
    \/ FRelogon
    \/ FRefetch
    \/ FScans
    \/ FReconcile
    \/ FReturn
    \/ FTick

SpecFetch == Init /\ [][NextF]_vars

(***************************************************************************)
(* Sequential scrapes on one engine with scans that queue and scan: the    *)
(* stages 3 Queued, 4 Scanning, 6 PostScan and 7 Finished.                 *)
(***************************************************************************)
StageStages == {3, 4, 6, 7}

StageEngineLists == ConcEngineLists

StageScans ==
    {Scan(i, st, e) : i \in ScanIds, st \in StageStages,
                      e \in {<<>>} \cup {<<x>> : x \in EngineIds}}

StageScanLists ==
    {q \in SeqsUpTo(StageScans, MaxQueue) :
        \A i, j \in 1..Len(q) : q[i].id = q[j].id => i = j}

StageCollectAny ==
    /\ pass = "idle"
    /\ \E engs \in StageEngineLists, scs \in StageScanLists : Collect(engs, scs)

NextS ==
    \/ StageCollectAny
    \/ CollectAbort
    \/ Return

SpecStage == Init /\ [][NextS]_vars

(***************************************************************************)
(* Sequential scrapes with their samples, on an engine whose name and LOC  *)
(* bounds change from one pass to the next.                                *)
(***************************************************************************)
NameEngineLists ==
    {<<>>} \cup
    {<<NamedEngine(1, n, c, loc[1], loc[2])>> :
        n \in {"a", "b"}, c \in 1..MaxCap,
        loc \in {<<0, 999999999>>, <<1000, 50000>>}}

NameScanLists ==
    {q \in MetScanLists : Len(q) <= 1 /\ \A i \in 1..Len(q) : q[i].id = 1}

NameCollectAny ==
    /\ pass = "idle"
    /\ \E engs \in NameEngineLists, scs \in NameScanLists, scannow \in 1..MaxTime :
          MCollect(engs, scs, scannow)

NextN ==
    \/ NameCollectAny
    \/ MCollectAbort
    \/ MReturn

SpecName == Init /\ [][NextN]_vars

(***************************************************************************)
(* Two scrapes at once, in the token part of collect: gettoken, and after  *)
(* an empty engine list resettoken and gettoken again.  A thread may be    *)
(* preempted between any two steps; a thread that waits in acquire stays   *)
(* where it is.                                                            *)
(***************************************************************************)
KGoto(t, to) == kpc' = [kpc EXCEPT ![t] = to]

KOther == <<seqvars, concvars, durvars, metvars, labvars, fpc, fcalls, fengines, fscans>>

\* collect starts: apitoken = self.gettoken()
KStart(t) ==
    /\ kpc[t].op = "idle"
    /\ KGoto(t, At("gettoken", "acquire", 1))
    /\ kest' = [kest EXCEPT ![t] = ""]
    /\ kret' = [kret EXCEPT ![t] = <<>>]
    /\ UNCHANGED <<klock, ftoken, fclock, KOther, stressvars>>

\* _tokenlock.acquire(), in gettoken and in resettoken
KAcquire(t) ==
    /\ kpc[t].at = "acquire"
    /\ LockFree(klock)
    /\ klock' = t
    /\ KGoto(t, [kpc[t] EXCEPT !.at = "locked"])
    /\ UNCHANGED <<kest, kret, ftoken, fclock, KOther, stressvars>>

\* gettoken, the test of line 373: on to cxlogon or straight to the release
KCheck(t) ==
    /\ kpc[t].op = "gettoken"
    /\ kpc[t].at = "locked"
    /\ IF NeedsLogon(ftoken, fclock)
       THEN /\ KGoto(t, [kpc[t] EXCEPT !.at = "logon"])
            /\ UNCHANGED kest
       ELSE /\ KGoto(t, [kpc[t] EXCEPT !.at = "release"])
            /\ kest' = [kest EXCEPT ![t] = ftoken.token]
    /\ UNCHANGED <<klock, kret, ftoken, fclock, KOther, stressvars>>

\* gettoken: cxlogon returns and the token is stored and stamped
KLogon(t) ==
    /\ kpc[t].op = "gettoken"
    /\ kpc[t].at = "logon"
    /\ \E stoken \in LogonResults :
          /\ ftoken' = gettoken(ftoken, fclock, stoken)
          /\ kest' = [kest EXCEPT ![t] = stoken]
    /\ KGoto(t, [kpc[t] EXCEPT !.at = "release"])
    /\ UNCHANGED <<klock, kret, fclock, KOther, stressvars>>

\* cxlogon raises and no finally releases the lock.
KLogonRaisesKeepLock(t) ==
    /\ kpc[t].op = "gettoken"
    /\ kpc[t].at = "logon"
    /\ KGoto(t, At("collect", "raised", kpc[t].n))
    /\ UNCHANGED <<klock, kest, kret, ftoken, fclock, KOther, stressvars>>

\* gettoken: cxlogon raises; the finally releases the lock and the exception
\* leaves gettoken and collect
KLogonRaises(t) ==
    /\ kpc[t].op = "gettoken"
    /\ kpc[t].at = "logon"
    /\ klock' = 0
    /\ KGoto(t, At("collect", "raised", kpc[t].n))
    /\ UNCHANGED <<kest, kret, ftoken, fclock, KOther, stressvars>>

\* resettoken: _token = "" and _tokenread = 0
KReset(t) ==
    /\ kpc[t].op = "resettoken"
    /\ kpc[t].at = "locked"
    /\ ftoken' = resettoken(ftoken)
    /\ KGoto(t, [kpc[t] EXCEPT !.at = "release"])
    /\ UNCHANGED <<klock, kest, kret, fclock, KOther, stressvars>>

\* finally: _tokenlock.release(); resettoken returns and collect calls
\* gettoken again
KRelease(t) ==
    /\ kpc[t].at = "release"
    /\ klock' = 0
    /\ KGoto(t, IF kpc[t].op = "gettoken"
                THEN [kpc[t] EXCEPT !.at = "return"]
                ELSE At("gettoken", "acquire", 2))
    /\ kest' = IF kpc[t].op = "gettoken" THEN kest ELSE [kest EXCEPT ![t] = ""]
    /\ kret' = IF kpc[t].op = "gettoken" THEN kret ELSE [kret EXCEPT ![t] = <<>>]
    /\ UNCHANGED <<ftoken, fclock, KOther, stressvars>>

\* gettoken: return _token, after the release
KReturn(t) ==
    /\ kpc[t].at = "return"
    /\ kret' = [kret EXCEPT ![t] = <<ftoken.token>>]
    /\ KGoto(t, At("collect", IF kpc[t].n = 1 THEN "fetch" ELSE "refetch", kpc[t].n))
    /\ UNCHANGED <<klock, kest, ftoken, fclock, KOther, stressvars>>

\* The first cxgetengines returned an empty list or raised: self.resettoken()
KEmpty(t) ==
    /\ kpc[t] = At("collect", "fetch", 1)
    /\ KGoto(t, At("resettoken", "acquire", 0))
    /\ UNCHANGED <<klock, kest, kret, ftoken, fclock, KOther, stressvars>>

\* The pass goes on without the token part and ends.
KDone(t) ==
    /\ kpc[t].op = "collect"
    /\ KGoto(t, At("idle", "idle", 0))
    /\ UNCHANGED <<klock, kest, kret, ftoken, fclock, KOther, stressvars>>

\* Time passes.
KTick ==
    /\ \E d \in TimeSteps :
          /\ fclock + d <= MaxClock
          /\ fclock' = fclock + d
    /\ UNCHANGED <<tokvars, ftoken, KOther, stressvars>>

NextT ==
    \/ \E t \in Threads :
          \/ KStart(t)
          \/ KAcquire(t)
          \/ KCheck(t)
          \/ KLogon(t)
          \/ KLogonRaises(t)
          \/ KReset(t)
          \/ KRelease(t)
          \/ KReturn(t)
          \/ KEmpty(t)
          \/ KDone(t)
    \/ KTick

SpecTok == Init /\ [][NextT]_vars

\* The steps of a thread that is running: everything but the arrival of a
\* scrape and the wait for the lock.
KRunning(t) ==
    \/ KCheck(t)
    \/ KLogon(t)
    \/ KLogonRaises(t)
    \/ KReset(t)
    \/ KRelease(t)
    \/ KReturn(t)
    \/ KEmpty(t)
    \/ KDone(t)

\* Fair scheduling: a thread that can run does run (a call of cxlogon ends,
\* with a result or with an exception), and a thread that waits in acquire
\* gets the lock if the lock is free again and again.  Scrapes arrive or not.
KFair ==
    \A t \in Threads :
        /\ WF_vars(KRunning(t))
        /\ SF_vars(KAcquire(t))

SpecTokFair == Init /\ [][NextT]_vars /\ KFair

(***************************************************************************)
(* The stress driver, round by round: logon, computecargo, startscans when *)
(* there is something to start, sleep.  An exception of any call leaves    *)
(* the while loop and ends the process.                                    *)
(***************************************************************************)
\* What cxgetprojects returns: the ids of the projects with a git link, none
\* on a refused request.
ProjectLists == SeqsUpTo(1..MaxProjects, MaxProjects)

SOther == <<seqvars, concvars, durvars, metvars, labvars, fetchvars, tokvars>>

\* stoken = cxlogon(...): it returns, or it raises
SLogon ==
    /\ spc = "logon"
    /\ spc' \in {"cargo", "stopped"}
    /\ UNCHANGED <<stepmode, lastproject, concurrentscans, scansrunning,
                   scansqueue, scanstostart, sprojects, sused, sstarted,
                   sraised, sprevstep, sprevlast, ncalls, SOther>>

\* scanstostart = computecargo(_hostname, stoken)
SComputeCargo ==
    /\ spc = "cargo"
    /\ ncalls < MaxCalls
    /\ \E capacity \in 0..MaxCapacity, running \in 0..MaxQueued,
          queued \in 0..MaxQueued :
          /\ concurrentscans' = capacity
          /\ scansrunning' = running
          /\ scansqueue' = queued
          /\ scanstostart' = ScansToStart(stepmode, capacity, queued)
    /\ sprevstep' = stepmode
    /\ stepmode' = NextStep(stepmode)
    /\ ncalls' = ncalls + 1
    /\ spc' = "start"
    /\ UNCHANGED <<lastproject, sprojects, sused, sstarted, sraised,
                   sprevlast, SOther>>

\* computecargo: the first, the second or the third of its requests raises,
\* after the globals before it were assigned
SCargoRaises ==
    /\ spc = "cargo"
    /\ \E k \in 1..3 :
          /\ concurrentscans' \in
                IF k > 1 THEN 0..MaxCapacity ELSE {concurrentscans}
          /\ scansrunning' \in IF k > 2 THEN 0..MaxQueued ELSE {scansrunning}
    /\ spc' = "stopped"
    /\ UNCHANGED <<stepmode, lastproject, scansqueue, scanstostart, sprojects,
                   sused, sstarted, sraised, sprevstep, sprevlast, ncalls,
                   SOther>>

\* if (scanstostart > 0): startscans(_hostname, stoken, scanstostart)
SStartScans ==
    /\ spc = "start"
    /\ scanstostart > 0
    /\ \E projects \in ProjectLists, failat \in 0..1 :
          LET r == StartLoop(lastproject, projects, scanstostart, failat,
                             <<>>, <<>>)
          IN  /\ sprojects' = projects
              /\ lastproject' = r.last
              /\ sused' = r.used
              /\ sstarted' = r.started
              /\ sraised' = r.raised
              /\ spc' = IF r.raised = "ok" THEN "sleep" ELSE "stopped"
    /\ sprevlast' = lastproject
    /\ UNCHANGED <<stepmode, concurrentscans, scansrunning, scansqueue,
                   scanstostart, sprevstep, ncalls, SOther>>

\* startscans: cxgetprojects raises
SProjectsRaise ==
    /\ spc = "start"
    /\ scanstostart > 0
    /\ sraised' = "network"
    /\ spc' = "stopped"
    /\ UNCHANGED <<stepmode, lastproject, concurrentscans, scansrunning,
                   scansqueue, scanstostart, sprojects, sused, sstarted,
                   sprevstep, sprevlast, ncalls, SOther>>

\* Nothing to start in this round.
SSkip ==
    /\ spc = "start"
    /\ scanstostart <= 0
    /\ spc' = "sleep"
    /\ UNCHANGED <<stepmode, lastproject, concurrentscans, scansrunning,
                   scansqueue, scanstostart, sprojects, sused, sstarted,
                   sraised, sprevstep, sprevlast, ncalls, SOther>>

\* time.sleep(60), and the next round; the locals of the round are gone
SSleep ==
    /\ spc = "sleep"
    /\ spc' = "logon"
    /\ sprojects' = <<>>
    /\ sused' = <<>>
    /\ sstarted' = <<>>
    /\ sraised' = "none"
    /\ sprevlast' = lastproject
    /\ UNCHANGED <<stepmode, lastproject, concurrentscans, scansrunning,
                   scansqueue, scanstostart, sprevstep, ncalls, SOther>>

NextX ==
    \/ SLogon
    \/ SComputeCargo
    \/ SCargoRaises
    \/ SStartScans
    \/ SProjectsRaise
    \/ SSkip
    \/ SSleep

SpecStress == Init /\ [][NextX]_vars

(***************************************************************************)
(* Properties.                                                             *)
(***************************************************************************)
KeysOf(list) == {list[i].key : i \in 1..Len(list)}

PositionsOf(list, key) == {p \in 1..Len(list) : list[p].key = key}

\* The scan list shows scan S with a stage in 3..6 and a reference to engine e.
ListedActive(scs, S, e) ==
    \E j \in 1..Len(scs) :
        scs[j].id = S /\ scs[j].stage \in 3..6 /\ scs[j].engine = <<e>>

\* The slots of engine e, by the engine id stored in the slot.
SlotsOfEngine(list, e) == {p \in 1..Len(list) : list[p].val.eid = e}

\* C1: after a pass, every engine of the pass's engine list has exactly one
\* slot for each index 1..maxScans, and every slot of the cache belongs to an
\* engine of that list with an index within that engine's maxScans.
C1_OneSlotPerCapacityUnit ==
    pass = "done" =>
        /\ \A i \in 1..Len(engines) : \A k \in 1..engines[i].maxScans :
              Cardinality(PositionsOf(enginelist, <<engines[i].id, k>>)) = 1
        /\ \A p \in 1..Len(enginelist) : \E i \in 1..Len(engines) :
              /\ engines[i].id = enginelist[p].key[1]
              /\ enginelist[p].key[2] \in 1..engines[i].maxScans

\* A pass that deleted a slot and created another one.
C1_Witness ==
    /\ pass = "done"
    /\ KeysOf(before) \ KeysOf(enginelist) # {}
    /\ KeysOf(enginelist) \ KeysOf(before) # {}

\* C2: after a pass, a slot has a nonzero assignedScanId only if the scan
\* list of the pass holds a scan with that id, a stage in 3..6 and a
\* reference to the slot's engine.
C2_AssignedOnlyWhileListed ==
    pass = "done" =>
        \A p \in 1..Len(enginelist) :
            enginelist[p].val.escanid # 0 =>
                ListedActive(scans, enginelist[p].val.escanid, enginelist[p].val.eid)

\* A pass that left one slot assigned and released another one.
C2_Witness ==
    /\ pass = "done"
    /\ \E p \in 1..Len(enginelist) : enginelist[p].val.escanid # 0
    /\ \E q \in 1..Len(before) :
          /\ before[q].val.escanid # 0
          /\ \E p \in PositionsOf(enginelist, before[q].key) :
                enginelist[p].val.escanid = 0

\* C3: when two concurrent scrapes have both finished, the cache is what the
\* two passes give when run one after the other, in one of the two orders.
C3_Serializable ==
    (\A t \in Threads : tpc[t] = "done") =>
        \/ enginelist = Reconcile(Reconcile(before, tengines[1], tscans[1]),
                                  tengines[2], tscans[2])
        \/ enginelist = Reconcile(Reconcile(before, tengines[2], tscans[2]),
                                  tengines[1], tscans[1])

\* C4 as claimed: a pass with an empty engine list keeps every slot key, in
\* place, creates none and only resets the slots to Idle with no scan.
C4_EmptyListKeepsSlots ==
    (pass = "done" /\ engines = <<>>) =>
        enginelist = [i \in 1..Len(before) |->
                         [before[i] EXCEPT !.val.escanid = 0, !.val.estate = "Idle"]]

\* C4 as amended: a pass with an empty engine list deletes every slot and
\* creates none, so the cache is empty after it.
C4_EmptyListClearsCache ==
    (pass = "done" /\ engines = <<>>) => enginelist = <<>>

\* A pass with an empty engine list on a cache that held an assigned slot.
C4_Witness ==
    /\ pass = "done"
    /\ engines = <<>>
    /\ \E q \in 1..Len(before) : before[q].val.escanid # 0

\* C5: a second pass with the engine list and the scan list of the pass that
\* just completed leaves the cache as it is: same keys in the same order,
\* same assignedScanId and state in every slot.
C5_Idempotent ==
    pass = "done" => Reconcile(enginelist, engines, scans) = enginelist

\* A pass that changed the cache, left a slot assigned and a slot free.
C5_Witness ==
    /\ pass = "done"
    /\ enginelist # before
    /\ \E p, q \in 1..Len(enginelist) :
          /\ enginelist[p].val.eid = enginelist[q].val.eid
          /\ enginelist[p].val.escanid # 0
          /\ enginelist[q].val.escanid = 0

\* C6: when an engine of the list reports fewer slots than the cache held
\* for it, no slot above the new capacity survives the pass, assigned or
\* not; and a scan that sat in such a slot and is still listed active on the
\* engine sits in exactly one slot of the engine after the pass, unless the
\* engine has no free slot left, and then it sits in none.
C6_ShrinkDeletesThenAssigns ==
    pass = "done" =>
        \A i \in 1..Len(engines) : \A q \in 1..Len(before) :
            (before[q].key[1] = engines[i].id /\ before[q].key[2] > engines[i].maxScans) =>
                LET e == engines[i].id
                    S == before[q].val.escanid
                    holders == {p \in SlotsOfEngine(enginelist, e) :
                                   enginelist[p].val.escanid = S}
                    free == {p \in SlotsOfEngine(enginelist, e) :
                                enginelist[p].val.escanid = 0}
                IN /\ PositionsOf(enginelist, before[q].key) = {}
                   /\ \A p \in SlotsOfEngine(enginelist, e) :
                         enginelist[p].key[2] <= engines[i].maxScans
                   /\ (S # 0 /\ ListedActive(scans, S, e)) =>
                         \/ Cardinality(holders) = 1
                         \/ holders = {} /\ free = {}

\* Capacity dropped under an assigned slot whose scan, still active, moved
\* to a surviving slot that was free.
C6_Witness ==
    /\ pass = "done"
    /\ \E i \in 1..Len(engines) : \E q \in 1..Len(before) :
          /\ before[q].key[1] = engines[i].id
          /\ before[q].key[2] > engines[i].maxScans
          /\ before[q].val.escanid # 0
          /\ ListedActive(scans, before[q].val.escanid, engines[i].id)
          /\ \E p \in 1..Len(enginelist) :
                /\ enginelist[p].val.eid = engines[i].id
                /\ enginelist[p].val.escanid = before[q].val.escanid

\* The case of C7: slot q of the cache before the pass carries a scan that
\* the pass's scan list does not show active on the slot's engine, and the
\* engine still reports a capacity of at least the slot's index.
C7_Case(q) ==
    /\ before[q].val.escanid # 0
    /\ ~ListedActive(scans, before[q].val.escanid, before[q].val.eid)
    /\ \E i \in 1..Len(engines) :
          /\ engines[i].id = before[q].key[1]
          /\ engines[i].maxScans >= before[q].key[2]

\* C7 as claimed: in that case the slot exists after the pass and is Idle
\* with assignedScanId 0.
C7_StaleSlotIdle ==
    pass = "done" =>
        \A q \in 1..Len(before) :
            C7_Case(q) =>
                \E p \in PositionsOf(enginelist, before[q].key) :
                    enginelist[p].val.escanid = 0 /\ enginelist[p].val.estate = "Idle"

\* C7 as amended: in that case the slot exists after the pass and no longer
\* carries the scan: it is Idle with assignedScanId 0, or it carries another
\* scan that the scan list shows active on the slot's engine.
C7_StaleSlotReleased ==
    pass = "done" =>
        \A q \in 1..Len(before) :
            C7_Case(q) =>
                \E p \in PositionsOf(enginelist, before[q].key) :
                    \/ enginelist[p].val.escanid = 0 /\ enginelist[p].val.estate = "Idle"
                    \/ /\ enginelist[p].val.escanid # before[q].val.escanid
                       /\ enginelist[p].val.estate # "Idle"
                       /\ ListedActive(scans, enginelist[p].val.escanid,
                                       enginelist[p].val.eid)

\* A slot whose scan left the queue and that is Idle after the pass.
C7_Witness ==
    /\ pass = "done"
    /\ \E q \in 1..Len(before) :
          /\ C7_Case(q)
          /\ \E p \in PositionsOf(enginelist, before[q].key) :
                enginelist[p].val.escanid = 0

\* The ids of the scans the list shows active on engine e.
ActiveOn(scs, e) ==
    {scs[j].id : j \in {k \in 1..Len(scs) :
        scs[k].id > 0 /\ scs[k].stage \in 3..6 /\ scs[k].engine = <<e>>}}

\* C8: after a pass, every engine of the list has as many non-Idle slots as
\* the smaller of its capacity and the number of distinct scans listed with
\* a positive id, a stage in 3..6 and that engine's id.
C8_BusySlotCount ==
    pass = "done" =>
        \A i \in 1..Len(engines) :
            LET busy == {p \in SlotsOfEngine(enginelist, engines[i].id) :
                            enginelist[p].val.estate # "Idle"}
                n == Cardinality(ActiveOn(scans, engines[i].id))
            IN Cardinality(busy) = IF engines[i].maxScans < n
                                   THEN engines[i].maxScans ELSE n

\* An engine of capacity 2 with one stage-4 scan: one Scanning slot and one
\* Idle slot.
C8_Witness ==
    /\ pass = "done"
    /\ \E i \in 1..Len(engines) :
          /\ engines[i].maxScans = 2
          /\ \E j \in 1..Len(scans) :
                /\ scans[j].stage = 4
                /\ ActiveOn(scans, engines[i].id) = {scans[j].id}
          /\ \E p, q \in SlotsOfEngine(enginelist, engines[i].id) :
                /\ enginelist[p].val.estate = "Scanning"
                /\ enginelist[q].val.estate = "Idle"

\* The timestamps of the scan that are dates.
DatesOf(scan) ==
    {d \in {scan.dateCreated, scan.queuedOn, scan.engineStartedOn, scan.completedOn} :
        d.kind = "date"}

\* C9 as claimed: every emitted duration is >= 0 whenever every timestamp of
\* the scan is at or before `now`.
C9_NonNegative ==
    (dpc = "classified" /\ \A d \in DatesOf(dscan) : d.secs <= dnow) =>
        \A i \in 1..Len(dout.samples) : dout.samples[i].val.num >= 0

\* C9 as amended: every emitted duration is >= 0 whenever every timestamp of
\* the scan is at or before `now` and the completion timestamp, when it is a
\* date, is not before the engine-start timestamp.
C9_NonNegativeOrdered ==
    (/\ dpc = "classified"
     /\ \A d \in DatesOf(dscan) : d.secs <= dnow
     /\ (dscan.completedOn.kind = "date" /\ dscan.engineStartedOn.kind = "date")
            => dscan.engineStartedOn.secs <= dscan.completedOn.secs) =>
        \A i \in 1..Len(dout.samples) : dout.samples[i].val.num >= 0

\* A scanning sample measured up to a completion timestamp that lies after
\* the engine start and not after `now`.
C9_Witness ==
    /\ dpc = "classified"
    /\ \A d \in DatesOf(dscan) : d.secs <= dnow
    /\ dscan.completedOn.kind = "date"
    /\ dscan.engineStartedOn.kind = "date"
    /\ dscan.engineStartedOn.secs < dscan.completedOn.secs
    /\ \E i \in 1..Len(dout.samples) :
          dout.samples[i].metric = "scanning" /\ dout.samples[i].val.num > 0

\* C10: for a scan whose creation time is a date, one `full` sample is
\* emitted, with the value now minus creation time (in minutes), exactly when
\* the stage is one of 1,2,3,4,5,6,10; in any other stage no sample of any
\* kind is emitted.
C10_FullSample ==
    (dpc = "classified" /\ dscan.dateCreated.kind = "date") =>
        LET full == {i \in 1..Len(dout.samples) : dout.samples[i].metric = "full"}
        IN /\ ~dout.raised
           /\ dscan.stage \in {1, 2, 3, 4, 5, 6, 10} =>
                 /\ Cardinality(full) = 1
                 /\ \A i \in full :
                       dout.samples[i].val =
                           [num |-> dnow - dscan.dateCreated.secs, den |-> 60]
           /\ dscan.stage \notin {1, 2, 3, 4, 5, 6, 10} => dout.samples = <<>>

\* A scan in the unused stage 5 with its `full` sample.
C10_Witness ==
    /\ dpc = "classified"
    /\ dscan.stage = 5
    /\ dscan.dateCreated.kind = "date"
    /\ dscan.dateCreated.secs < dnow
    /\ \E i \in 1..Len(dout.samples) : dout.samples[i].metric = "full"

\* The positions of the samples of one series in the output of an iteration.
SamplesOf(out, metric) == {i \in 1..Len(out.samples) : out.samples[i].metric = metric}

\* C11: for a scan whose creation time is a date, one `pulling` sample is
\* emitted exactly when the stage is one of 1, 2, 10, and its value is the
\* value of the scan's `full` sample: now minus creation time, in minutes.
C11_PullingSample ==
    (dpc = "classified" /\ dscan.dateCreated.kind = "date") =>
        LET pulling == SamplesOf(dout, "pulling")
            full == SamplesOf(dout, "full")
        IN /\ dscan.stage \in {1, 2, 10} =>
                 /\ Cardinality(pulling) = 1
                 /\ Cardinality(full) = 1
                 /\ \A i \in pulling : \A j \in full :
                       /\ dout.samples[i].val = dout.samples[j].val
                       /\ dout.samples[i].val =
                              [num |-> dnow - dscan.dateCreated.secs, den |-> 60]
           /\ dscan.stage \notin {1, 2, 10} => pulling = {}

\* A scan in stage 10, created before now, with its `pulling` sample.
C11_Witness ==
    /\ dpc = "classified"
    /\ dscan.stage = 10
    /\ dscan.dateCreated.kind = "date"
    /\ dscan.dateCreated.secs < dnow
    /\ SamplesOf(dout, "pulling") # {}

\* C12: for a scan whose creation time is a date, a `queued` sample is
\* emitted exactly when the stage is 3 and the queued-at timestamp parses,
\* with the value now minus queued-at, in minutes; when the stage is 3 and
\* the timestamp is absent or does not parse, nothing is raised and the
\* `full` sample of the scan is emitted.
C12_QueuedSample ==
    (dpc = "classified" /\ dscan.dateCreated.kind = "date") =>
        LET queued == SamplesOf(dout, "queued")
            parsed == ParseDate(dscan.queuedOn)
        IN /\ (queued # {}) <=> (dscan.stage = 3 /\ parsed.ok)
           /\ Cardinality(queued) <= 1
           /\ \A i \in queued :
                 dout.samples[i].val = [num |-> dnow - parsed.t, den |-> 60]
           /\ (dscan.stage = 3 /\ ~parsed.ok) =>
                 ~dout.raised /\ SamplesOf(dout, "full") # {}

\* C13: for a scan whose creation time is a date, a `scanning` sample is
\* emitted exactly when the stage is 4, 5 or 6 and the engine-start timestamp
\* parses; its value is the end minus engine-start, in minutes, where the end
\* is the completion timestamp when that parses and now otherwise.
C13_ScanningSample ==
    (dpc = "classified" /\ dscan.dateCreated.kind = "date") =>
        LET scanning == SamplesOf(dout, "scanning")
            started == ParseDate(dscan.engineStartedOn)
            completed == ParseDate(dscan.completedOn)
            effectiveEnd == IF completed.ok THEN completed.t ELSE dnow
        IN /\ (scanning # {}) <=> (dscan.stage \in {4, 5, 6} /\ started.ok)
           /\ Cardinality(scanning) <= 1
           /\ \A i \in scanning :
                 dout.samples[i].val = [num |-> effectiveEnd - started.t, den |-> 60]

\* C14: when a pass has completed, the utilization series holds one sample
\* per slot of the cache, in cache order, labeled with the slot's engine id,
\* engine name, slot index and state, with value 0 for an Idle slot and 1
\* for any other.
C14_UtilizationSamples ==
    pass = "done" =>
        /\ Len(metrics.engine) = Len(enginelist)
        /\ \A p \in 1..Len(enginelist) :
              metrics.engine[p] =
                  [labels |-> <<Str(enginelist[p].key[1]), enginelist[p].val.ename,
                                Str(enginelist[p].key[2]), enginelist[p].val.estate>>,
                   val |-> IF enginelist[p].val.estate = "Idle" THEN 0 ELSE 1]

\* A completed pass, started on lists that held utilization samples, with a
\* sample of value 1 and a sample of value 0.
C14_Witness ==
    /\ pass = "done"
    /\ mbefore.engine # <<>>
    /\ \E i, k \in 1..Len(metrics.engine) :
          metrics.engine[i].val = 1 /\ metrics.engine[k].val = 0

\* The stages in which a scan gets a sample in a duration series.
SeriesStages(name) ==
    CASE name = "pulling" -> {1, 2, 10}
      [] name = "queued" -> {3}
      [] name = "scanning" -> {4, 5, 6}
      [] name = "full" -> {1, 2, 3, 4, 5, 6, 10}

\* C15: when a pass has completed, whatever passes ran or aborted before it,
\* every utilization sample is that of a slot of the cache as the pass left
\* it and no two of them are for the same slot; every duration sample is that
\* of a scan of the pass's scan list in a stage of its series, measured at
\* the pass's now, and no series holds two samples for the same scan.
C15_SamplesReplaced ==
    pass = "done" =>
        /\ \A i \in 1..Len(metrics.engine) :
              \E p \in 1..Len(enginelist) :
                  /\ metrics.engine[i].labels[1] = Str(enginelist[p].key[1])
                  /\ metrics.engine[i].labels[3] = Str(enginelist[p].key[2])
                  /\ metrics.engine[i].labels[4] = enginelist[p].val.estate
        /\ \A i, k \in 1..Len(metrics.engine) :
              (/\ metrics.engine[i].labels[1] = metrics.engine[k].labels[1]
               /\ metrics.engine[i].labels[3] = metrics.engine[k].labels[3]) => i = k
        /\ \A name \in {"pulling", "queued", "scanning", "full"} :
              /\ \A i \in 1..Len(metrics[name]) :
                    \E j \in 1..Len(scans) :
                        /\ metrics[name][i].labels[1] = Str(scans[j].id)
                        /\ scans[j].stage \in SeriesStages(name)
                        /\ name \in {"pulling", "full"} =>
                              metrics[name][i].val =
                                  [num |-> mnow - scans[j].dateCreated.secs, den |-> 60]
              /\ \A i, k \in 1..Len(metrics[name]) :
                    metrics[name][i].labels[1] = metrics[name][k].labels[1] => i = k

\* A completed pass that follows a pass which aborted in its scan loop and
\* left utilization and duration samples in the lists.
C15_Witness ==
    /\ pass = "done"
    /\ mprev = "raised"
    /\ mbefore.engine # <<>>
    /\ mbefore.full # <<>>
    /\ metrics.full # <<>>
    /\ metrics # mbefore

\* C18: a classified scan has one sample in each duration series of its
\* stage, whatever its engine reference; when the reference is null or is
\* the id of no engine of the pass's list the samples are labeled engineId
\* "0", engineName "", locMin "0", locMax "999999999", and otherwise with the
\* id, name, minLoc and maxLoc that the list reports for that engine.
C18_ScanLabels ==
    (dpc = "labeled" /\ dscan.dateCreated.kind = "date") =>
        LET matches == IF dscan.engine = <<>> THEN {}
                       ELSE {i \in 1..Len(dengines) : dengines[i].id = dscan.engine[1]}
        IN \A name \in {"pulling", "queued", "scanning", "full"} :
              /\ Len(dmetrics[name]) = IF dscan.stage \in SeriesStages(name) THEN 1 ELSE 0
              /\ \A i \in 1..Len(dmetrics[name]) :
                    /\ matches = {} =>
                          dmetrics[name][i].labels =
                              <<Str(dscan.id), Str(0), "", Str(0), Str(999999999)>>
                    /\ \A k \in matches :
                          dmetrics[name][i].labels =
                              <<Str(dscan.id), Str(dengines[k].id), dengines[k].name,
                                Str(dengines[k].minLoc), Str(dengines[k].maxLoc)>>

\* A scanning scan that refers to an engine missing from a list of two
\* engines, with its default labels.
C18_Witness ==
    /\ dpc = "labeled"
    /\ dscan.stage = 4
    /\ dscan.engine = <<MaxEngineId + 1>>
    /\ Len(dengines) = 2
    /\ Len(dmetrics.scanning) = 1
    /\ dmetrics.scanning[1].labels[2] = Str(0)

\* The positions of the calls of one function in the calls of the pass.
CallsOf(name) == {i \in 1..Len(fcalls) : fcalls[i].call = name}

\* C16: in one pass cxgetengines is called at most twice and resettoken at
\* most once; a second cxgetengines comes only after a first one that raised
\* or returned an empty list, right after one resettoken and one gettoken
\* that follow the first; and a pass that has fetched twice goes on to the
\* scan queue with the list of the second fetch, whatever it is.
C16_BoundedRefetch ==
    LET fetches == CallsOf("cxgetengines")
        resets == CallsOf("resettoken")
    IN /\ Cardinality(fetches) <= 2
       /\ Cardinality(resets) <= 1
       /\ Cardinality(CallsOf("gettoken")) <= 1 + Cardinality(resets)
       /\ \A i \in fetches : \A k \in fetches :
             i < k =>
                 /\ fcalls[i].raised \/ fcalls[i].value = <<>>
                 /\ k = i + 3
                 /\ fcalls[i + 1].call = "resettoken"
                 /\ fcalls[i + 2].call = "gettoken"
                 /\ \A n \in (k + 1)..Len(fcalls) : fcalls[n].call = "cxgetscansqueue"
                 /\ ~fcalls[k].raised =>
                       /\ fpc \in {"scans", "fetched", "done", "aborted"}
                       /\ fengines = fcalls[k].value
       /\ resets # {} => \E i \in fetches : \A r \in resets : i < r

\* A completed pass whose two fetches of the engine list both came back
\* empty.
C16_Witness ==
    /\ fpc = "done"
    /\ Cardinality(CallsOf("cxgetengines")) = 2
    /\ Cardinality(CallsOf("resettoken")) = 1
    /\ fengines = <<>>

\* C17: a pass whose engine list holds an engine with a negative maxScans
\* does not complete.
C17_NegativeCapacityFatal ==
    (\E i \in 1..Len(fengines) : fengines[i].maxScans < 0) => fpc # "done"

\* Slot p of the cache carries the scan it carried, under the same key, when
\* the pass started.
Retained(p) ==
    \E q \in 1..Len(before) :
        /\ before[q].key = enginelist[p].key
        /\ before[q].val.escanid = enginelist[p].val.escanid

\* The position of scan S in the scan list of the pass.
ListPos(S) == CHOOSE j \in 1..Len(scans) : scans[j].id = S

\* C19: the cache lists the slots of one engine in ascending slot index, at
\* all times; and when a pass has put a scan into a slot that did not carry
\* it before, every slot of the same engine with a lower index was taken
\* when the scan was placed: it carries a scan it carried before the pass or
\* a scan that the list shows ahead of the placed one.
C19_LowestFreeSlot ==
    /\ \A p, r \in 1..Len(enginelist) :
          (p < r /\ enginelist[p].key[1] = enginelist[r].key[1]) =>
              enginelist[p].key[2] < enginelist[r].key[2]
    /\ pass = "done" =>
          \A p \in 1..Len(enginelist) :
              (enginelist[p].val.escanid # 0 /\ ~Retained(p)) =>
                  \A r \in SlotsOfEngine(enginelist, enginelist[p].val.eid) :
                      enginelist[r].key[2] < enginelist[p].key[2] =>
                          /\ enginelist[r].val.escanid # 0
                          /\ \/ Retained(r)
                             \/ ListPos(enginelist[r].val.escanid) <
                                    ListPos(enginelist[p].val.escanid)

\* A pass that placed a new scan in slot 1 of an engine whose slot 2 went on
\* carrying the scan it carried.
C19_Witness ==
    /\ pass = "done"
    /\ \E p, r \in 1..Len(enginelist) :
          /\ enginelist[p].key[1] = enginelist[r].key[1]
          /\ enginelist[p].key[2] = 1
          /\ enginelist[r].key[2] = 2
          /\ enginelist[p].val.escanid # 0
          /\ ~Retained(p)
          /\ enginelist[r].val.escanid # 0
          /\ Retained(r)

\* C20: when a slot carried scan S before a pass, the engine list of the pass
\* shows the slot's engine with a capacity of at least the slot's index and
\* the scan list shows S active on that engine, the slot carries S after the
\* pass and no other slot does.
C20_StableAssignment ==
    pass = "done" =>
        \A q \in 1..Len(before) :
            (/\ before[q].val.escanid # 0
             /\ \E i \in 1..Len(engines) :
                   /\ engines[i].id = before[q].key[1]
                   /\ engines[i].maxScans >= before[q].key[2]
             /\ ListedActive(scans, before[q].val.escanid, before[q].val.eid)) =>
                /\ \E p \in PositionsOf(enginelist, before[q].key) :
                      enginelist[p].val.escanid = before[q].val.escanid
                /\ \A r \in 1..Len(enginelist) :
                      enginelist[r].val.escanid = before[q].val.escanid =>
                          enginelist[r].key = before[q].key

\* Scan S stays in slot 2 of its engine while slot 1 of the engine is free
\* after the pass.
C20_Witness ==
    /\ pass = "done"
    /\ \E q \in 1..Len(before) :
          /\ before[q].val.escanid # 0
          /\ before[q].key[2] = 2
          /\ ListedActive(scans, before[q].val.escanid, before[q].val.eid)
          /\ \E p \in PositionsOf(enginelist, before[q].key) :
                enginelist[p].val.escanid = before[q].val.escanid
          /\ \E r \in PositionsOf(enginelist, <<before[q].key[1], 1>>) :
                enginelist[r].val.escanid = 0

\* C21: after a pass, a slot that carries a scan is Queued when the scan
\* list of the pass shows that scan in stage 3 and Scanning when it shows it
\* in stage 4, 5 or 6, also when the slot carried the scan before the pass
\* with another state.
C21_StateReflectsStage ==
    pass = "done" =>
        \A p \in 1..Len(enginelist) :
            enginelist[p].val.escanid # 0 =>
                /\ \E j \in 1..Len(scans) : scans[j].id = enginelist[p].val.escanid
                /\ \A j \in 1..Len(scans) :
                      scans[j].id = enginelist[p].val.escanid =>
                          /\ scans[j].stage \in 3..6
                          /\ scans[j].stage = 3 => enginelist[p].val.estate = "Queued"
                          /\ scans[j].stage \in 4..6 =>
                                enginelist[p].val.estate = "Scanning"

\* A scan that kept its slot and went from Queued to Scanning.
C21_Witness ==
    /\ pass = "done"
    /\ \E p \in 1..Len(enginelist) : \E q \in 1..Len(before) :
          /\ before[q].key = enginelist[p].key
          /\ before[q].val.escanid # 0
          /\ before[q].val.escanid = enginelist[p].val.escanid
          /\ before[q].val.estate = "Queued"
          /\ enginelist[p].val.estate = "Scanning"

\* C26: in every state of the cache, between passes and after them, a slot
\* is Idle exactly when its scan id is 0 and Queued or Scanning exactly when
\* its scan id is positive.
C26_IdleIffFree ==
    \A p \in 1..Len(enginelist) :
        /\ enginelist[p].val.estate \in {"Idle", "Queued", "Scanning"}
        /\ enginelist[p].val.escanid >= 0
        /\ (enginelist[p].val.estate = "Idle") <=> (enginelist[p].val.escanid = 0)

\* A pass that released one slot and filled another with a queued scan.
C26_Witness ==
    /\ pass = "done"
    /\ \E q \in 1..Len(before) : \E p \in PositionsOf(enginelist, before[q].key) :
          before[q].val.escanid # 0 /\ enginelist[p].val.estate = "Idle"
    /\ \E p \in 1..Len(enginelist) :
          enginelist[p].val.estate = "Queued" /\ ~Retained(p)

\* Scan j of the pass's list is in a stage 3..6 and refers to an engine that
\* the pass's engine list does not hold.
Unmatched(j) ==
    /\ scans[j].stage \in 3..6
    /\ scans[j].engine # <<>>
    /\ \A i \in 1..Len(engines) : engines[i].id # scans[j].engine[1]

\* C22: the cache after a pass is the cache the pass gives, from the same
\* cache and engine list, with a scan list from which a scan in stage 3..6
\* that refers to an engine missing from the engine list is removed.
C22_UnmatchedScanIgnored ==
    pass = "done" =>
        \A j \in 1..Len(scans) :
            Unmatched(j) =>
                enginelist = Reconcile(before, engines, RemoveAt(scans, j))

\* A pass with such a scan next to a scan that it placed in a slot, on a
\* cache that held the unmatched scan while its engine was listed.
C22_Witness ==
    /\ pass = "done"
    /\ \E j \in 1..Len(scans) :
          /\ Unmatched(j)
          /\ \E q \in 1..Len(before) : before[q].val.escanid = scans[j].id
    /\ \E p \in 1..Len(enginelist) : enginelist[p].val.escanid # 0

\* C27: after a pass, no scan id other than 0 is carried by two slots of the
\* cache, also when the scan list shows a scan on another engine than the
\* one whose slot carried it.
C27_OneSlotPerScan ==
    pass = "done" =>
        \A p, r \in 1..Len(enginelist) :
            (/\ enginelist[p].val.escanid # 0
             /\ enginelist[p].val.escanid = enginelist[r].val.escanid) => p = r

\* A scan that sat on one engine before the pass and sits on another engine
\* after it, with the old engine still in the cache.
C27_Witness ==
    /\ pass = "done"
    /\ \E q \in 1..Len(before) : \E p \in 1..Len(enginelist) :
          /\ before[q].val.escanid # 0
          /\ enginelist[p].val.escanid = before[q].val.escanid
          /\ enginelist[p].val.eid # before[q].val.eid
          /\ PositionsOf(enginelist, before[q].key) # {}

\* C28: for a classified scan, at most one sample of the `pulling`, `queued`
\* and `scanning` series is emitted, and when one is emitted the `full`
\* sample is emitted too.
C28_OnePhaseSample ==
    dpc = "classified" =>
        LET phases == SamplesOf(dout, "pulling") \cup SamplesOf(dout, "queued")
                          \cup SamplesOf(dout, "scanning")
        IN /\ Cardinality(phases) <= 1
           /\ phases # {} => Cardinality(SamplesOf(dout, "full")) = 1

\* A scan in stage 10 with its `pulling` and `full` samples and timestamps
\* for the other two phases.
C28_Witness ==
    /\ dpc = "classified"
    /\ dscan.stage = 10
    /\ ParseOrZero(dscan.queuedOn) > 0
    /\ ParseOrZero(dscan.engineStartedOn) > 0
    /\ SamplesOf(dout, "pulling") # {}
    /\ SamplesOf(dout, "full") # {}

\* C29: a slot that is in the cache before and after a pass has the same
\* engine name, minLoc and maxLoc after it, whatever the engine list of the
\* pass reports; and the duration samples of a completed pass for a scan
\* whose reference is the id of an engine of the list carry the name, minLoc
\* and maxLoc which that list reports.
C29_SlotDescriptorKept ==
    /\ pass \in {"done", "raised"} =>
          \A p \in 1..Len(enginelist) : \A q \in 1..Len(before) :
              before[q].key = enginelist[p].key =>
                  /\ enginelist[p].val.ename = before[q].val.ename
                  /\ enginelist[p].val.eminloc = before[q].val.eminloc
                  /\ enginelist[p].val.emaxloc = before[q].val.emaxloc
    /\ pass = "done" =>
          \A name \in {"pulling", "queued", "scanning", "full"} :
              \A i \in 1..Len(metrics[name]) : \A j \in 1..Len(scans) :
                  \A k \in 1..Len(engines) :
                      (/\ metrics[name][i].labels[1] = Str(scans[j].id)
                       /\ scans[j].engine = <<engines[k].id>>) =>
                          /\ metrics[name][i].labels[3] = engines[k].name
                          /\ metrics[name][i].labels[4] = Str(engines[k].minLoc)
                          /\ metrics[name][i].labels[5] = Str(engines[k].maxLoc)

\* A completed pass whose engine reports another name and other LOC bounds
\* than a surviving slot holds, with a duration sample under the new name.
C29_Witness ==
    /\ pass = "done"
    /\ \E p \in 1..Len(enginelist) : \E q \in 1..Len(before) :
          /\ before[q].key = enginelist[p].key
          /\ enginelist[p].val.ename # engines[1].name
          /\ enginelist[p].val.eminloc # Str(engines[1].minLoc)
    /\ \E i \in 1..Len(metrics.full) : metrics.full[i].labels[3] = engines[1].name

C30_FetchExceptions ==
    LET fetches == CallsOf("cxgetengines")
        first == Min(fetches)
    IN /\ (fetches # {} /\ fcalls[first].raised) =>
             /\ Len(fcalls) = first => (fpc = "reset" /\ fengines = <<>>)
             /\ Len(fcalls) > first => fcalls[first + 1].call = "resettoken"
             /\ Len(fcalls) > first + 1 => fcalls[first + 2].call = "gettoken"
             /\ Len(fcalls) > first + 2 => fcalls[first + 3].call = "cxgetengines"
       /\ \A n \in 1..Len(fcalls) :
             (fcalls[n].raised /\ ~(fetches # {} /\ n = first)) =>
                 (n = Len(fcalls) /\ fpc = "aborted")
       /\ fpc = "aborted" =>
             /\ fcalls[Len(fcalls)].raised
             /\ enginelist = before
             /\ metrics = NoSamples

\* A pass aborted by its second fetch after its first fetch raised, on a
\* cache with a slot that carries a scan.
C30_Witness ==
    /\ fpc = "aborted"
    /\ Cardinality(CallsOf("cxgetengines")) = 2
    /\ \A i \in CallsOf("cxgetengines") : fcalls[i].raised
    /\ \E p \in 1..Len(enginelist) : enginelist[p].val.escanid # 0

\* The threads inside the locked section of gettoken or resettoken.
InLock == {t \in Threads : kpc[t].at \in {"locked", "logon", "release"}}

\* C24: across concurrent scrapes, the token and its timestamp are read and
\* written only by the thread that holds the token lock: at most one thread
\* is inside the locked section of gettoken or resettoken, at most one logon
\* is in flight, and every step that changes the token is a step of the
\* lock's holder.
C24_TokenUnderLock ==
    /\ [](/\ Cardinality(InLock) <= 1
          /\ \A t \in InLock : klock = t
          /\ Cardinality({t \in Threads : kpc[t].at = "logon"}) <= 1)
    /\ [][ftoken' # ftoken => \E t \in InLock : klock = t /\ kpc'[t].at = "release"]_vars

\* One thread is in its logon while the other waits for the lock in
\* resettoken.
C24_Witness ==
    \E t \in Threads, u \in Threads :
        /\ kpc[t].at = "logon"
        /\ klock = t
        /\ kpc[u] = At("resettoken", "acquire", 0)

\* C25: a gettoken call that found a valid cached token or completed a
\* successful logon returns that non-empty credential to its caller, also
\* when another scrape runs resettoken at the same time.
C25_ReturnsEstablished ==
    \A t \in Threads :
        (kret[t] # <<>> /\ kest[t] # "") => kret[t] = <<kest[t]>>

C32_CargoSteps ==
    /\ stepmode \in 0..10
    /\ stepmode = ncalls % 11
    /\ scanstostart >= 0
    /\ ncalls > 0 =>
          /\ sprevstep = (ncalls - 1) % 11
          /\ LET full == (3 * concurrentscans) - scansqueue
                 one == concurrentscans - scansqueue
             IN  \/ spc = "stopped"
                 \/ /\ sprevstep = 0
                    /\ scanstostart = IF full > 0 THEN full ELSE 0
                 \/ /\ sprevstep # 0
                    /\ scanstostart = IF one > 0 THEN one ELSE 0

\* The twelfth call has returned: it was made with step 0 again, and it
\* asked for three times the capacity.
C32_Witness ==
    /\ ncalls = 12
    /\ sprevstep = 0
    /\ stepmode = 1
    /\ concurrentscans = 2
    /\ scansqueue = 1
    /\ scanstostart = 5

\* C33: in the stress driver, startscans with n > 0 starts exactly n scans,
\* on the projects in turn from the position where the previous call stopped,
\* back to the first project after the last; every index it uses is within
\* the project list it has just fetched, also when that list is shorter than
\* the one of the call before or empty.
C33_RoundRobin ==
    sraised \in {"ok", "index"} =>
        /\ Len(sstarted) = scanstostart
        /\ Len(sused) = scanstostart
        /\ \A i \in 1..Len(sused) :
              /\ sused[i] \in 0..(Len(sprojects) - 1)
              /\ sused[i] = LET prev == IF i = 1 THEN sprevlast ELSE sused[i - 1]
                            IN  IF prev + 1 >= Len(sprojects) THEN 0 ELSE prev + 1
              /\ sstarted[i] = sprojects[sused[i] + 1]

====
